---- MODULE Spec2Model ----
(***************************************************************************)
(* A model of the audio analysis and mixing engine of the No Agenda mixer: *)
(* energy analysis and segment selection (web/audio_processor.py), the    *)
(* parallel segment runner (web/performance_optimizer.py), the mix        *)
(* assembly and the production pipeline (web/audio_processor.py,          *)
(* web/professional_mixer_production.py) and the crossfade assembler      *)
(* (web/professional_mixer.py).                                           *)
(*                                                                         *)
(* Times are exact rationals <<n, d>> (d > 0, lowest terms), so that the  *)
(* divisions of the code are divisions and not integer approximations.    *)
(* Floating point rounding is not modelled.                               *)
(***************************************************************************)
EXTENDS Integers, Sequences, FiniteSets, TLC

VARIABLES
    rms,            \* analyze_audio_advanced: the per-frame RMS energy of the source
    sr,             \* analyze_audio_advanced: the sample rate of the source
    analysis,       \* the analysis dict (its segment dicts are mutated by selection)
    calls,          \* the calls of intelligent_segment_selection made so far:
                    \* <<[params, selected]>>, the list returned, by value
    futures,        \* parallel_segment_processing: per submitted segment, the state
                    \* of its future and what processing_func does for it
    max_workers,    \* parallel_segment_processing: the size of the thread pool
    yielded,        \* the futures as_completed has yielded so far
    results,        \* parallel_segment_processing: the list results
    valid_results,  \* what parallel_segment_processing returned: <<>> or <<list>>
    full_audio,     \* create_professional_mix: len(full_audio), in ms
    segments,       \* create_professional_mix: the candidate list it was given
    mix_segments,   \* create_professional_mix: the parts appended so far
    mixI,           \* create_professional_mix: the rounds of the loop done
    mixPc,          \* create_professional_mix: where the call is
    exports,        \* the mixes handed to export_professional_mix, in order
    output_path,    \* what create_professional_mix returned: <<>> or <<value>>
    prodPc,         \* create_professional_mix_production: where the run is
    target_duration,\* create_professional_mix_production: its parameter
    audio_data,     \* the samples load_audio_from_url gave: <<>> or <<count>>
    metrics,        \* ProcessingMetrics: the errors tracked, the emissions made
    uploads,        \* the mixes uploaded to S3, in order
    response,       \* what the production run returned: <<>> or <<response>>
    xfSegments,     \* crossfade_segments: segments, each a sequence of samples
    crossfade_samples, \* crossfade_segments: its local of that name
    xfResult,       \* crossfade_segments: result
    xfI,            \* crossfade_segments: the loop index i
    xfPc,           \* crossfade_segments: where the call is
    theme,          \* the theme key given to the run or to the processing chain
    audio,          \* apply_professional_processing: the peak level of its input
    processed,      \* apply_professional_processing: the peak level of processed
    chainPc,        \* apply_professional_processing: where the call is
    pmAudio,        \* ProfessionalAudioMixer.create_professional_mix: len(audio)
    pmSr,           \* ProfessionalAudioMixer.create_professional_mix: sr
    pmTargetDuration, \* its parameter target_duration, in seconds
    pmSegments,     \* its local segments, the candidates selected
    pmMixSegments,  \* its local mix_segments, the parts appended so far
    pmTotalDuration,\* its local total_duration, in samples
    pmI,            \* the rounds of its loop over segments done
    pmPc,           \* where the call is
    pmOutput,       \* what it returned: <<>> or <<value>>
    pmsDuration,    \* ProfessionalAudioMixer.intelligent_segment_selection:
                    \* len(audio) / sr, in seconds
    pmsAnalysis,    \* its parameter analysis: high_energy_segments and onsets
    pmsTargetSegments, \* its parameter target_segments
    pmsCalls,       \* the lists returned by the calls made with these arguments
    liteChunks,     \* create_professional_mix_lite: the dBFS of each 30 s
                    \* chunk of the episode
    liteTargetDuration, \* its parameter target_duration, in seconds
    liteTempDir,    \* self.temp_dir: <<>> for None, or <<directory>>
    liteFiles,      \* the files that exist on disk
    liteSegments,   \* its local segments
    liteMixSegments,\* its local mix_segments
    liteTotalDuration, \* its local total_duration, in ms
    liteI,          \* the rounds of its loop over segments done
    litePc,         \* where the call is
    liteOutput      \* the value it returns: <<>> or <<value>>

selVars == <<rms, sr, analysis, calls>>
parVars == <<futures, max_workers, yielded, results, valid_results>>
mixVars == <<full_audio, segments, mix_segments, mixI, mixPc, exports, output_path>>

prodVars == <<prodPc, target_duration, audio_data, metrics, uploads, response>>

xfVars == <<xfSegments, crossfade_samples, xfResult, xfI, xfPc>>

chainVars == <<theme, audio, processed, chainPc>>

pmVars == <<pmAudio, pmSr, pmTargetDuration, pmSegments, pmMixSegments,
            pmTotalDuration, pmI, pmPc, pmOutput>>

pmsVars == <<pmsDuration, pmsAnalysis, pmsTargetSegments, pmsCalls>>

liteVars == <<liteChunks, liteTargetDuration, liteTempDir, liteFiles,
              liteSegments, liteMixSegments, liteTotalDuration, liteI, litePc,
              liteOutput>>

vars == <<selVars, parVars, mixVars, prodVars, xfVars, chainVars, pmVars,
          pmsVars, liteVars>>

(***************************************************************************)
(* Bounds of the model.                                                    *)
(***************************************************************************)
NumFrames == 14
MaxTarget == 2
MaxDur == 3
MaxCalls == 2
MaxUniFrames == 8
MaxUniTarget == 5
MaxUniDur == 3
MaxSegments == 3
MaxCpus == 2
MaxMixStart == 2
MaxMixSegments == 3
MaxProdFrames == 8
BurstFrames == 6
MaxXfSegments == 3
MaxXfLen == 4
MaxBatchSegments == 3
MaxBatchStart == 1

EnergyLevels == {1, 2}
SampleRates == {256, 512}

(***************************************************************************)
(* Rational arithmetic.                                                    *)
(***************************************************************************)
Abs(x) == IF x < 0 THEN -x ELSE x

RECURSIVE GCD(_, _)
GCD(a, b) == IF b = 0 THEN a ELSE GCD(b, a % b)

Rat(n, d) ==
    LET g == GCD(Abs(n), d)
    IN  IF g = 0 THEN <<n, d>> ELSE <<n \div g, d \div g>>

RLt(a, b) == a[1] * b[2] < b[1] * a[2]
RLe(a, b) == a[1] * b[2] <= b[1] * a[2]
RAdd(a, b) == Rat(a[1] * b[2] + b[1] * a[2], a[2] * b[2])
RSub(a, b) == Rat(a[1] * b[2] - b[1] * a[2], a[2] * b[2])
RMax(a, b) == IF RLt(a, b) THEN b ELSE a
RMin(a, b) == IF RLt(b, a) THEN b ELSE a

(***************************************************************************)
(* analyze_audio_advanced                                                  *)
(***************************************************************************)
hop_length == 512

\* librosa.frames_to_time: frame -> seconds
frames_to_time(f, rate) == Rat(f * hop_length, rate)

\* librosa.time_to_frames: seconds -> samples (truncated) -> frame (floored)
time_to_frames(t, rate) == ((t[1] * rate) \div t[2]) \div hop_length

\* len(audio_data) for a source of Len(r) frames (librosa centres the frames:
\* 1 + len // hop_length frames)
SamplesOf(r) == (Len(r) - 1) * hop_length

\* np.sort: place k holds the value with fewer than k values below it and at
\* least k values not above it
SortAsc(s) ==
    [k \in 1..Len(s) |->
        CHOOSE v \in {s[i] : i \in 1..Len(s)} :
            /\ Cardinality({i \in 1..Len(s) : s[i] < v}) < k
            /\ k <= Cardinality({i \in 1..Len(s) : s[i] <= v})]

\* np.percentile(r, 75), linear interpolation between the two nearest ranks
Percentile75(r) ==
    LET s == SortAsc(r)
        n == Len(s)
        lo == (3 * (n - 1)) \div 4
        fr == (3 * (n - 1)) % 4
        hi == IF lo + 1 < n THEN lo + 1 ELSE lo
    IN  Rat(4 * s[lo + 1] + fr * (s[hi + 1] - s[lo + 1]), 4)

\* HighEnergyFrames with >= for >
RECURSIVE HighEnergyFramesGe(_, _, _)
HighEnergyFramesGe(r, thr, f) ==
    IF f >= Len(r) THEN <<>>
    ELSE (IF RLe(thr, <<r[f + 1], 1>>) THEN <<f>> ELSE <<>>)
         \o HighEnergyFramesGe(r, thr, f + 1)

\* np.where(rms > energy_threshold)[0]: the frames (from 0), ascending
RECURSIVE HighEnergyFrames(_, _, _)
HighEnergyFrames(r, thr, f) ==
    IF f >= Len(r) THEN <<>>
    ELSE (IF RLt(thr, <<r[f + 1], 1>>) THEN <<f>> ELSE <<>>)
         \o HighEnergyFrames(r, thr, f + 1)

RECURSIVE SumRange(_, _, _)
SumRange(r, a, b) == IF a >= b THEN 0 ELSE r[a + 1] + SumRange(r, a + 1, b)

\* float(np.mean(rms[a:b])); the mean of an empty slice is nan, written <<0, 0>>
MeanEnergy(r, rate, start, end) ==
    LET a == time_to_frames(start, rate)
        b == time_to_frames(end, rate)
        hiB == IF b > Len(r) THEN Len(r) ELSE b
    IN  IF a >= hiB THEN <<0, 0>> ELSE Rat(SumRange(r, a, hiB), hiB - a)

\* One entry of analysis['high_energy_segments'].  A key a dict does not hold
\* is <<>>, a key it holds is <<value>>.
EnergyRun(r, rate, start, end) ==
    [start_time |-> <<start>>, end_time |-> <<end>>, duration |-> RSub(end, start),
     energy_score |-> <<MeanEnergy(r, rate, start, end)>>,
     name |-> <<>>, timestamp |-> <<>>, confidence |-> <<>>,
     selection_method |-> <<>>]

\* The grouping loop over times[1:], with its locals segment_start, prev_time
\* and segments (runs)
RECURSIVE GroupLoop(_, _, _, _, _, _, _)
GroupLoop(r, rate, times, i, segment_start, prev_time, runs) ==
    IF i > Len(times)
    THEN IF RLt(segment_start, prev_time)
         THEN Append(runs, EnergyRun(r, rate, segment_start, prev_time))
         ELSE runs
    ELSE IF RLt(<<2, 1>>, RSub(times[i], prev_time))
         THEN GroupLoop(r, rate, times, i + 1, times[i], times[i],
                        Append(runs, EnergyRun(r, rate, segment_start, prev_time)))
         ELSE GroupLoop(r, rate, times, i + 1, segment_start, times[i], runs)

HighEnergyTimes(r, rate) ==
    LET frames == HighEnergyFrames(r, Percentile75(r), 0)
    IN  [k \in 1..Len(frames) |-> frames_to_time(frames[k], rate)]

HighEnergySegments(r, rate) ==
    LET times == HighEnergyTimes(r, rate)
    IN  IF Len(times) > 0
        THEN GroupLoop(r, rate, times, 2, times[1], times[1], <<>>)
        ELSE <<>>

analyze_audio_advanced(r, rate) ==
    [analysis_type |-> "advanced",
     duration |-> <<Rat(SamplesOf(r), rate)>>,
     high_energy_segments |-> HighEnergySegments(r, rate)]

\* What the except branch returns: no duration, no segments
AnalysisFailed == [analysis_type |-> "failed", duration |-> <<>>,
                   high_energy_segments |-> <<>>]

(***************************************************************************)
(* create_distributed_segments                                             *)
(***************************************************************************)
DistributedStart(duration, count, min_duration, i) ==
    LET segment_gap == Rat(duration[1], duration[2] * (count + 1))
        start_time == RSub(Rat((i + 1) * segment_gap[1], segment_gap[2]),
                           Rat(min_duration[1], 2 * min_duration[2]))
    IN  RMax(<<0, 1>>, RMin(RSub(duration, min_duration), start_time))

DistributedSegment(duration, count, min_duration, i) ==
    [start_time |-> <<>>, end_time |-> <<>>, duration |-> min_duration,
     energy_score |-> <<>>,
     name |-> <<"Distributed Segment", i + 1>>,
     timestamp |-> <<DistributedStart(duration, count, min_duration, i)>>,
     confidence |-> <<Rat(6, 10)>>,
     selection_method |-> <<"distributed">>]

create_distributed_segments(duration, count, min_duration) ==
    [k \in 1..count |-> DistributedSegment(duration, count, min_duration, k - 1)]

(***************************************************************************)
(* intelligent_segment_selection                                           *)
(***************************************************************************)
\* analysis.get('duration', 3600)
DurationOf(a) == IF a.duration = <<>> THEN <<3600, 1>> ELSE a.duration[1]

\* The positions in high_energy_segments of the segments that pass the
\* duration filter, in list order
\* ValidSegments with the upper bound of the filter left out
RECURSIVE ValidSegmentsNoMax(_, _, _, _)
ValidSegmentsNoMax(segs, min_duration, max_duration, k) ==
    IF k > Len(segs) THEN <<>>
    ELSE (IF RLe(min_duration, segs[k].duration) THEN <<k>> ELSE <<>>)
         \o ValidSegmentsNoMax(segs, min_duration, max_duration, k + 1)

\* ValidSegments with the lower bound of the filter left out
RECURSIVE ValidSegmentsNoMin(_, _, _, _)
ValidSegmentsNoMin(segs, min_duration, max_duration, k) ==
    IF k > Len(segs) THEN <<>>
    ELSE (IF RLe(segs[k].duration, max_duration) THEN <<k>> ELSE <<>>)
         \o ValidSegmentsNoMin(segs, min_duration, max_duration, k + 1)

RECURSIVE ValidSegments(_, _, _, _)
ValidSegments(segs, min_duration, max_duration, k) ==
    IF k > Len(segs) THEN <<>>
    ELSE (IF RLe(min_duration, segs[k].duration) /\ RLe(segs[k].duration, max_duration)
          THEN <<k>> ELSE <<>>)
         \o ValidSegments(segs, min_duration, max_duration, k + 1)

\* list.sort(key=energy_score, reverse=True): stable, equal keys keep their order
RECURSIVE InsertByEnergy(_, _, _)
InsertByEnergy(segs, sorted, k) ==
    IF sorted = <<>> THEN <<k>>
    ELSE IF RLt(segs[Head(sorted)].energy_score[1], segs[k].energy_score[1])
         THEN <<k>> \o sorted
         ELSE <<Head(sorted)>> \o InsertByEnergy(segs, Tail(sorted), k)

RECURSIVE SortByEnergy(_, _)
SortByEnergy(segs, idx) ==
    IF idx = <<>> THEN <<>>
    ELSE InsertByEnergy(segs, SortByEnergy(segs, SubSeq(idx, 1, Len(idx) - 1)),
                        idx[Len(idx)])

\* list.sort(key=timestamp): stable, ascending
RECURSIVE InsertByTimestamp(_, _)
InsertByTimestamp(sorted, c) ==
    IF sorted = <<>> THEN <<c>>
    ELSE IF RLt(c.timestamp[1], Head(sorted).timestamp[1])
         THEN <<c>> \o sorted
         ELSE <<Head(sorted)>> \o InsertByTimestamp(Tail(sorted), c)

RECURSIVE SortByTimestamp(_)
SortByTimestamp(cs) ==
    IF cs = <<>> THEN <<>>
    ELSE InsertByTimestamp(SortByTimestamp(SubSeq(cs, 1, Len(cs) - 1)), cs[Len(cs)])

\* AddMetadata that also overwrites energy_score, with the score weighted by
\* the confidence
AddMetadataRescored(seg, i) ==
    [seg EXCEPT !.name = <<"High Energy Segment", i + 1>>,
                !.timestamp = seg.start_time,
                !.confidence = <<Rat(9, 10)>>,
                !.selection_method = <<"energy_based">>,
                !.energy_score = <<Rat(9 * seg.energy_score[1][1],
                                       10 * seg.energy_score[1][2])>>]

\* seg.update({...}) for the i-th selected segment (i from 0)
AddMetadata(seg, i) ==
    [seg EXCEPT !.name = <<"High Energy Segment", i + 1>>,
                !.timestamp = seg.start_time,
                !.confidence = <<Rat(9, 10)>>,
                !.selection_method = <<"energy_based">>]

\* The position of k in the list of positions s (0 when it is not there)
PositionIn(s, k) ==
    IF \E j \in 1..Len(s) : s[j] = k
    THEN CHOOSE j \in 1..Len(s) : s[j] = k
    ELSE 0

\* The whole call: the list returned and the analysis as the call leaves it
\* (the selected dicts are the dicts of analysis['high_energy_segments'])
intelligent_segment_selection(a, target_segments, min_duration, max_duration) ==
    LET segs == a.high_energy_segments
        valid == ValidSegments(segs, min_duration, max_duration, 1)
    IN  IF Len(valid) >= target_segments
        THEN LET top == SubSeq(SortByEnergy(segs, valid), 1, target_segments)
                 updated == [k \in 1..Len(segs) |->
                                IF PositionIn(top, k) > 0
                                THEN AddMetadata(segs[k], PositionIn(top, k) - 1)
                                ELSE segs[k]]
                 selected == [j \in 1..Len(top) |-> updated[top[j]]]
             IN  [analysis |-> [a EXCEPT !.high_energy_segments = updated],
                  selected |-> SortByTimestamp(selected)]
        ELSE [analysis |-> a,
              selected |-> SortByTimestamp(
                  create_distributed_segments(DurationOf(a), target_segments,
                                              min_duration))]

(***************************************************************************)
(* The caller of the analysis and the selection: one source, analysed     *)
(* once, then selected from up to MaxCalls times with the same parameters. *)
(***************************************************************************)
ParamSpace(maxTarget, maxDur) ==
    [target_segments : 1..maxTarget, min_duration : 1..maxDur,
     max_duration : 1..maxDur]

\* target_segments >= 1 and 0 < min_duration <= max_duration
ValidParams(P) == {p \in P : p.min_duration <= p.max_duration}

Params == ValidParams(ParamSpace(MaxTarget, MaxDur))

NotAnalysed == [analysis_type |-> "none", duration |-> <<>>,
                high_energy_segments |-> <<>>]

\* No call of parallel_segment_processing is under way
ParIdle ==
    /\ futures = <<>>
    /\ max_workers = 0
    /\ yielded = {}
    /\ results = <<>>
    /\ valid_results = <<>>

\* No call of create_professional_mix is under way
MixIdle ==
    /\ full_audio = 0
    /\ segments = <<>>
    /\ mix_segments = <<>>
    /\ mixI = 0
    /\ mixPc = "idle"
    /\ exports = <<>>
    /\ output_path = <<>>

\* No production run is under way
ProdIdle ==
    /\ prodPc = "idle"
    /\ target_duration = 0
    /\ audio_data = <<>>
    /\ metrics = [errors |-> <<>>, emitted |-> 0]
    /\ uploads = <<>>
    /\ response = <<>>

\* No call of crossfade_segments is under way
XfIdle ==
    /\ xfSegments = <<>>
    /\ crossfade_samples = 0
    /\ xfResult = <<>>
    /\ xfI = 0
    /\ xfPc = "idle"

\* A buffer without any sample that is not zero: max_dBFS is -infinity
Silent == [silent |-> TRUE, db |-> 0]

\* No call of apply_professional_processing is followed
ChainIdle ==
    /\ theme = ""
    /\ audio = Silent
    /\ processed = Silent
    /\ chainPc = "idle"

LiteIdle ==
    /\ liteChunks = <<>>
    /\ liteTargetDuration = 0
    /\ liteTempDir = <<>>
    /\ liteFiles = {}
    /\ liteSegments = <<>>
    /\ liteMixSegments = <<>>
    /\ liteTotalDuration = 0
    /\ liteI = 0
    /\ litePc = "idle"
    /\ liteOutput = <<>>

PmsIdle ==
    /\ pmsDuration = 0
    /\ pmsAnalysis = [high_energy_segments |-> <<>>, onsets |-> <<>>]
    /\ pmsTargetSegments = 0
    /\ pmsCalls = <<>>

PmIdle ==
    /\ pmAudio = 0
    /\ pmSr = 0
    /\ pmTargetDuration = 0
    /\ pmSegments = <<>>
    /\ pmMixSegments = <<>>
    /\ pmTotalDuration = 0
    /\ pmI = 0
    /\ pmPc = "idle"
    /\ pmOutput = <<>>

\* What the analysis and the selection leave alone
notSel == <<parVars, mixVars, prodVars, xfVars, chainVars, pmVars, pmsVars, liteVars>>

InitSel ==
    /\ rms \in [1..NumFrames -> EnergyLevels]
    /\ sr \in SampleRates
    /\ analysis = NotAnalysed
    /\ calls = <<>>
    /\ ParIdle
    /\ MixIdle
    /\ ProdIdle
    /\ XfIdle
    /\ ChainIdle
    /\ PmIdle
    /\ PmsIdle
    /\ LiteIdle

\* analysis = analyze_audio_advanced(audio_data, sr); the frames are the
\* call's own and are gone when it returns
Analyze ==
    /\ analysis.analysis_type = "none"
    /\ rms # <<>>
    /\ analysis' = analyze_audio_advanced(rms, sr)
    /\ rms' = <<>>
    /\ UNCHANGED <<sr, calls, notSel>>

\* analyze_audio_advanced when a librosa call raises: the except branch
AnalyzeFails ==
    /\ analysis.analysis_type = "none"
    /\ rms # <<>>
    /\ analysis' = AnalysisFailed
    /\ rms' = <<>>
    /\ UNCHANGED <<sr, calls, notSel>>

\* selected = intelligent_segment_selection(analysis, **p); a later call
\* repeats the parameters of the first
Select(P) ==
    /\ analysis.analysis_type # "none"
    /\ Len(calls) < MaxCalls
    /\ \E p \in P :
          /\ calls # <<>> => p = calls[1].params
          /\ LET out == intelligent_segment_selection(
                            analysis, p.target_segments,
                            <<p.min_duration, 1>>, <<p.max_duration, 1>>)
             IN  /\ analysis' = out.analysis
                 /\ calls' = Append(calls, [params |-> p, selected |-> out.selected])
    /\ UNCHANGED <<rms, sr, notSel>>

NextSel == Analyze \/ AnalyzeFails \/ Select(Params)

SpecSel == InitSel /\ [][NextSel]_vars

(***************************************************************************)
(* Sources of uniform energy, of 1..MaxUniFrames frames, selected from     *)
(* with up to MaxUniTarget segments of up to MaxUniDur seconds.            *)
(***************************************************************************)
UniParams == ValidParams(ParamSpace(MaxUniTarget, MaxUniDur))

InitUni ==
    /\ rms \in {[k \in 1..n |-> e] : n \in 1..MaxUniFrames, e \in EnergyLevels}
    /\ sr \in SampleRates
    /\ analysis = NotAnalysed
    /\ calls = <<>>
    /\ ParIdle
    /\ MixIdle
    /\ ProdIdle
    /\ XfIdle
    /\ ChainIdle
    /\ PmIdle
    /\ PmsIdle
    /\ LiteIdle

NextUni == Analyze \/ Select(UniParams)

SpecUni == InitUni /\ [][NextUni]_vars

(***************************************************************************)
(* Properties of the selection.                                            *)
(***************************************************************************)
Ts(c) == c.timestamp[1]

IsSortedByTimestamp(cs) ==
    \A i \in 1..Len(cs) : \A j \in 1..Len(cs) : i < j => RLe(Ts(cs[i]), Ts(cs[j]))

RAbs(a) == <<Abs(a[1]), a[2]>>

EnergyBased(cs) ==
    cs # <<>> /\ \A i \in 1..Len(cs) : cs[i].selection_method = <<"energy_based">>

Distributed(cs) ==
    \A i \in 1..Len(cs) : cs[i].selection_method = <<"distributed">>

\* C6: every list intelligent_segment_selection returns has at most
\* target_segments entries, is sorted by timestamp ascending, and each entry's
\* duration lies in [min_duration, max_duration].
C6_SelectionBounded ==
    \A k \in 1..Len(calls) :
        LET p == calls[k].params
            cs == calls[k].selected
        IN  /\ Len(cs) <= p.target_segments
            /\ IsSortedByTimestamp(cs)
            /\ \A i \in 1..Len(cs) :
                  /\ RLe(<<p.min_duration, 1>>, cs[i].duration)
                  /\ RLe(cs[i].duration, <<p.max_duration, 1>>)

\* a call that took the energy path and selected runs of different energy,
\* not in time order of energy
C6_Witness ==
    \E k \in 1..Len(calls) :
        LET cs == calls[k].selected
        IN  /\ EnergyBased(cs)
            /\ Len(cs) = 2
            /\ cs[1].name[2] = 2

\* C7: on the energy path over the runs of analyze_audio_advanced, no two
\* selected segments start within min_duration of each other.
C7_EnergySpacing ==
    \A k \in 1..Len(calls) :
        LET p == calls[k].params
            cs == calls[k].selected
        IN  EnergyBased(cs) =>
                \A i \in 1..Len(cs) : \A j \in 1..Len(cs) :
                    i # j => RLt(<<p.min_duration, 1>>, RAbs(RSub(Ts(cs[i]), Ts(cs[j]))))

C7_Witness ==
    \E k \in 1..Len(calls) :
        /\ EnergyBased(calls[k].selected)
        /\ Len(calls[k].selected) >= 2
        /\ calls[k].params.min_duration >= 2

\* C8: two calls with the same parameters on the same analysis object return
\* identical lists (same segments, same order, same field values), the second
\* call being made on the analysis as the first call left it.
C8_SelectionDeterministic ==
    \A i \in 1..Len(calls) : \A j \in 1..Len(calls) :
        calls[i].params = calls[j].params => calls[i].selected = calls[j].selected

\* a second call on the analysis as the first call left it: of two runs of
\* the same energy the first call has updated one and not the other
C8_Witness ==
    /\ Len(calls) >= 2
    /\ EnergyBased(calls[2].selected)
    /\ \E k \in 1..Len(analysis.high_energy_segments) :
       \E m \in 1..Len(analysis.high_energy_segments) :
           /\ analysis.high_energy_segments[k].name = <<>>
           /\ analysis.high_energy_segments[m].name # <<>>
           /\ analysis.high_energy_segments[k].energy_score
                = analysis.high_energy_segments[m].energy_score

\* The start times of cs are evenly spaced: all consecutive differences equal
EvenlySpaced(cs) ==
    \A i \in 1..Len(cs) : \A j \in 1..Len(cs) :
        (i + 1 <= Len(cs) /\ j + 1 <= Len(cs)) =>
            RSub(Ts(cs[i + 1]), Ts(cs[i])) = RSub(Ts(cs[j + 1]), Ts(cs[j]))

\* Exactly target_segments Distributed segments, each min_duration long
UniformFallsBack(c) ==
    /\ Len(c.selected) = c.params.target_segments
    /\ Distributed(c.selected)
    /\ \A i \in 1..Len(c.selected) :
           c.selected[i].duration = <<c.params.min_duration, 1>>

\* C9 as stated: a source of uniform energy yields no energy run, and the
\* selection returns exactly target_segments Distributed segments, each
\* min_duration long, at evenly spaced start times.
C9_UniformEvenlySpaced ==
    /\ analysis.high_energy_segments = <<>>
    /\ \A k \in 1..Len(calls) :
           UniformFallsBack(calls[k]) /\ EvenlySpaced(calls[k].selected)

\* C9 amended: a source of uniform energy yields no energy run, and the
\* selection returns exactly target_segments Distributed segments, each
\* min_duration long, at non-decreasing start times in
\* [0, max(0, duration - min_duration)]; the start times are evenly spaced,
\* duration / (target_segments + 1) apart, whenever that spacing is at least
\* min_duration / 2 (no start time is clamped).
C9_UniformDistributed ==
    /\ analysis.high_energy_segments = <<>>
    /\ \A k \in 1..Len(calls) :
           LET c == calls[k]
               cs == c.selected
               d == DurationOf(analysis)
               m == <<c.params.min_duration, 1>>
               gap == Rat(d[1], d[2] * (c.params.target_segments + 1))
           IN  /\ UniformFallsBack(c)
               /\ IsSortedByTimestamp(cs)
               /\ \A i \in 1..Len(cs) :
                      /\ RLe(<<0, 1>>, Ts(cs[i]))
                      /\ RLe(Ts(cs[i]), RMax(<<0, 1>>, RSub(d, m)))
               /\ RLe(Rat(m[1], 2 * m[2]), gap) =>
                      /\ EvenlySpaced(cs)
                      /\ \A i \in 1..Len(cs) :
                             i + 1 <= Len(cs) => RSub(Ts(cs[i + 1]), Ts(cs[i])) = gap

\* a uniform source selected from with four or more segments, unclamped
C9_Witness ==
    \E k \in 1..Len(calls) :
        LET c == calls[k]
            d == DurationOf(analysis)
        IN  /\ c.params.target_segments >= 4
            /\ Distributed(c.selected)
            /\ RLe(Rat(c.params.min_duration, 2),
                   Rat(d[1], d[2] * (c.params.target_segments + 1)))
            /\ EvenlySpaced(c.selected)

(***************************************************************************)
(* PerformanceOptimizer.parallel_segment_processing: the segments are      *)
(* submitted to a pool of max_workers threads, which takes them in         *)
(* submission order; the caller appends each future's result (None when    *)
(* processing_func raised) as as_completed yields it, then returns the     *)
(* results that are not None.  The result of segment i is written i.       *)
(***************************************************************************)
MaxPoolSize == 4

None == 0

\* min(4, len(segments), os.cpu_count() or 1)
DefaultWorkers(n, cpus) ==
    LET a == IF MaxPoolSize < n THEN MaxPoolSize ELSE n
    IN  IF a < cpus THEN a ELSE cpus

\* No call of the analysis is under way
SelIdle ==
    /\ rms = <<>>
    /\ sr = 0
    /\ analysis = NotAnalysed
    /\ calls = <<>>

notPar == <<selVars, mixVars, prodVars, xfVars, chainVars, pmVars, pmsVars, liteVars>>

InitPar ==
    /\ \E n \in 1..MaxSegments :
          futures \in [1..n -> {f \in [state : {"pending"}, raises : BOOLEAN,
                                       hangs : BOOLEAN] : f.hangs => ~f.raises}]
    /\ \E cpus \in 1..MaxCpus : max_workers = DefaultWorkers(Len(futures), cpus)
    /\ yielded = {}
    /\ results = <<>>
    /\ valid_results = <<>>
    /\ SelIdle
    /\ MixIdle
    /\ ProdIdle
    /\ XfIdle
    /\ ChainIdle
    /\ PmIdle
    /\ PmsIdle
    /\ LiteIdle

Running == {i \in 1..Len(futures) : futures[i].state = "running"}

\* A pool thread takes the next submitted segment
WorkerStart(i) ==
    /\ futures[i].state = "pending"
    /\ \A j \in 1..(i - 1) : futures[j].state # "pending"
    /\ Cardinality(Running) < max_workers
    /\ futures' = [futures EXCEPT ![i].state = "running"]
    /\ UNCHANGED <<max_workers, yielded, results, valid_results, notPar>>

\* processing_func(segment, audio_data) returns or raises: the future is done.
\* A call of processing_func that hangs never gets here.
WorkerFinish(i) ==
    /\ futures[i].state = "running"
    /\ ~futures[i].hangs
    /\ futures' = [futures EXCEPT ![i].state = "finished"]
    /\ UNCHANGED <<max_workers, yielded, results, valid_results, notPar>>

\* One round of the loop over as_completed: it yields a finished future not
\* yielded before, and future.result() gives its result or raises
Collect(i) ==
    /\ valid_results = <<>>
    /\ futures[i].state = "finished"
    /\ i \notin yielded
    /\ yielded' = yielded \cup {i}
    /\ results' = Append(results, IF futures[i].raises THEN None ELSE i)
    /\ UNCHANGED <<futures, max_workers, valid_results, notPar>>

\* [r for r in results if r is not None]
RECURSIVE FilterNotNone(_)
FilterNotNone(rs) ==
    IF rs = <<>> THEN <<>>
    ELSE (IF Head(rs) # None THEN <<Head(rs)>> ELSE <<>>) \o FilterNotNone(Tail(rs))

\* as_completed is exhausted: the results that are not None are returned
ParReturn ==
    /\ valid_results = <<>>
    /\ futures # <<>>
    /\ yielded = 1..Len(futures)
    /\ valid_results' = <<FilterNotNone(results)>>
    /\ UNCHANGED <<futures, max_workers, yielded, results, notPar>>

NextPar ==
    \/ \E i \in 1..Len(futures) : WorkerStart(i)
    \/ \E i \in 1..Len(futures) : WorkerFinish(i)
    \/ \E i \in 1..Len(futures) : Collect(i)
    \/ ParReturn

SpecPar == InitPar /\ [][NextPar]_vars

\* The threads of the pool and the calling thread are scheduled: a step that
\* stays possible is taken
SpecParFair == SpecPar /\ WF_vars(NextPar)

(***************************************************************************)
(* ProfessionalAudioProcessor.create_professional_mix: an intro, then per  *)
(* candidate in range its processed audio and a gap, then an outro; the    *)
(* parts are summed, mastered and exported.  A part is                     *)
(* [kind, index, processing, fade_in, fade_out, ms]; index is the place of *)
(* the candidate in the list given (from 1).                               *)
(***************************************************************************)
\* int(x * 1000) for a time x >= 0 in seconds
Millis(x) == (x[1] * 1000) \div x[2]

start_ms(c) == Millis(Ts(c))
end_ms(c) == start_ms(c) + Millis(c.duration)

\* InRange with < for <= at the end
InRangeStrictEnd(c, len) == start_ms(c) < len /\ end_ms(c) < len

\* start_ms < len(full_audio) and end_ms <= len(full_audio)
InRange(c, len) == start_ms(c) < len /\ end_ms(c) <= len

Silence(kind, ms) ==
    [kind |-> kind, index |-> 0, processing |-> "none",
     fade_in |-> FALSE, fade_out |-> FALSE, ms |-> ms]

\* apply_professional_processing, then fade_in(500) unless the intro is the
\* only part so far, then fade_out(500).  processing is "processed", or "raw"
\* when the chain raised and the except branch returned the audio as it was.
ProcessedSegment(i, c, processing, parts) ==
    [kind |-> "segment", index |-> i, processing |-> processing,
     fade_in |-> Len(parts) > 1, fade_out |-> TRUE, ms |-> Millis(c.duration)]

notMix == <<selVars, parVars, prodVars, xfVars, chainVars, pmVars, pmsVars, liteVars>>

\* A candidate as a caller may pass it: a name, a timestamp, a duration
Candidate(ts, dur) ==
    [start_time |-> <<>>, end_time |-> <<>>, duration |-> dur,
     energy_score |-> <<>>, name |-> <<"Candidate">>, timestamp |-> <<ts>>,
     confidence |-> <<>>, selection_method |-> <<>>]

\* Starts and durations of whole half seconds, and one duration that is not
\* a whole number of milliseconds
MixCandidates ==
    {Candidate(Rat(k, 2), Rat(d, 2)) : k \in 0..MaxMixStart, d \in 1..2}
        \cup {Candidate(Rat(0, 1), Rat(2001, 2000))}

SeqsUpTo(S, n) == UNION {[1..m -> S] : m \in 0..n}

InitMix ==
    /\ full_audio \in {1000, 1500}
    /\ segments \in SeqsUpTo(MixCandidates, MaxMixSegments)
    /\ mix_segments = <<>>
    /\ mixI = 0
    /\ mixPc = "start"
    /\ exports = <<>>
    /\ output_path = <<>>
    /\ SelIdle
    /\ ParIdle
    /\ ProdIdle
    /\ XfIdle
    /\ ChainIdle
    /\ PmIdle
    /\ PmsIdle
    /\ LiteIdle

\* The source is written and loaded and the intro is appended
MixBegin ==
    /\ mixPc = "start"
    /\ mix_segments' = <<Silence("intro", 2000)>>
    /\ mixI' = 0
    /\ mixPc' = "loop"
    /\ UNCHANGED <<full_audio, segments, exports, output_path, notMix>>

\* sf.write or AudioSegment.from_file raises: the except branch returns None
MixSetupRaises ==
    /\ mixPc = "start"
    /\ mixPc' = "done"
    /\ output_path' = <<"None">>
    /\ UNCHANGED <<full_audio, segments, mix_segments, mixI, exports, notMix>>

\* One round of the loop over the candidates
MixSegment ==
    /\ mixPc = "loop"
    /\ mixI < Len(segments)
    /\ LET i == mixI + 1
           c == segments[i]
           gap == IF i - 1 < Len(segments) - 1
                  THEN <<Silence("gap", 1000)>> ELSE <<>>
       IN  IF InRange(c, full_audio)
           THEN \E processing \in {"processed", "raw"} :
                    mix_segments' = Append(mix_segments,
                        ProcessedSegment(i, c, processing, mix_segments)) \o gap
           ELSE mix_segments' = mix_segments
    /\ mixI' = mixI + 1
    /\ UNCHANGED <<full_audio, segments, mixPc, exports, output_path, notMix>>

\* The outro is appended; "if not mix_segments" returns None for an empty
\* list, which the list, holding the intro and the outro, never is
MixOutro ==
    /\ mixPc = "loop"
    /\ mixI = Len(segments)
    /\ LET parts == Append(mix_segments, Silence("outro", 3000))
       IN  /\ mix_segments' = parts
           /\ mixPc' = IF parts = <<>> THEN "done" ELSE "export"
           /\ output_path' = IF parts = <<>> THEN <<"None">> ELSE output_path
    /\ UNCHANGED <<full_audio, segments, mixI, exports, notMix>>

\* sum(mix_segments), the master pass (processed, or raw when its chain
\* raised), export_professional_mix: audio.export is called on the sum and the
\* path is returned, or "" when audio.export raised
MixExport ==
    /\ mixPc = "export"
    /\ \E mastering \in {"processed", "raw"}, written \in BOOLEAN :
          /\ exports' = Append(exports, [parts |-> mix_segments,
                                         mastering |-> mastering,
                                         written |-> written])
          /\ output_path' = <<IF written THEN "mix.mp3" ELSE "">>
    /\ mixPc' = "done"
    /\ UNCHANGED <<full_audio, segments, mix_segments, mixI, notMix>>

NextMix ==
    \/ MixBegin
    \/ MixSetupRaises
    \/ MixSegment
    \/ MixOutro
    \/ MixExport

SpecMix == InitMix /\ [][NextMix]_vars

(***************************************************************************)
(* ProfessionalAudioProcessor.batch_process_segments: the candidates are   *)
(* processed by a pool of BatchPoolSize threads through executor.map, the  *)
(* results (i, processed) are sorted and the ones that are None dropped.   *)
(* futures[i].result is what process_single_segment returned for the       *)
(* candidate at place i: <<>> for None, <<part>> for processed audio.      *)
(***************************************************************************)
BatchPoolSize == 4

notBatch == <<selVars, prodVars, xfVars, chainVars, pmVars, pmsVars, liteVars>>

\* Candidates of one second, starting at whole half seconds
BatchCandidates == {Candidate(Rat(k, 2), Rat(1, 1)) : k \in 0..MaxBatchStart}

InitBatch ==
    /\ full_audio \in {1000, 1500}
    /\ segments \in SeqsUpTo(BatchCandidates, MaxBatchSegments)
    /\ futures \in [1..Len(segments) ->
                       [state : {"pending"}, raises : BOOLEAN, hangs : {FALSE},
                        result : {<<>>}]]
    /\ max_workers = BatchPoolSize
    /\ yielded = {}
    /\ results = <<>>
    /\ valid_results = <<>>
    /\ mix_segments = <<>>
    /\ mixI = 0
    /\ mixPc = "idle"
    /\ exports = <<>>
    /\ output_path = <<>>
    /\ SelIdle
    /\ ProdIdle
    /\ XfIdle
    /\ ChainIdle
    /\ PmIdle
    /\ PmsIdle
    /\ LiteIdle

\* sf.write or AudioSegment.from_file raises: the outer except returns []
BatchSetupRaises ==
    /\ valid_results = <<>>
    /\ \A i \in 1..Len(futures) : futures[i].state = "pending"
    /\ valid_results' = << <<>> >>
    /\ UNCHANGED <<futures, max_workers, yielded, results, mixVars, notBatch>>

\* What process_single_segment returns for the candidate at place i:
\* (i, processed) in range, (i, None) out of range or after an exception
SingleSegmentResult(i, c, raises, len, processing) ==
    IF ~raises /\ InRange(c, len)
    THEN <<[kind |-> "segment", index |-> i, processing |-> processing,
            fade_in |-> FALSE, fade_out |-> FALSE, ms |-> Millis(c.duration)]>>
    ELSE <<>>

\* process_single_segment((i, segment)) returns in a pool thread
BatchWorkerFinish(i) ==
    /\ valid_results = <<>>
    /\ futures[i].state = "running"
    /\ \E processing \in {"processed", "raw"} :
          futures' = [futures EXCEPT
                         ![i].state = "finished",
                         ![i].result = SingleSegmentResult(
                             i, segments[i], futures[i].raises, full_audio,
                             processing)]
    /\ UNCHANGED <<max_workers, yielded, results, valid_results, mixVars,
                   notBatch>>

\* list(executor.map(...)): the iterator gives the results in the order of
\* submission, waiting for each in turn
BatchCollect ==
    /\ valid_results = <<>>
    /\ Len(results) < Len(futures)
    /\ LET k == Len(results) + 1
       IN  /\ futures[k].state = "finished"
           /\ results' = Append(results, [i |-> k, processed |-> futures[k].result])
           /\ yielded' = yielded \cup {k}
    /\ UNCHANGED <<futures, max_workers, valid_results, mixVars, notBatch>>

\* sorted(results): by i (no two results have the same i)
RECURSIVE InsertByIndex(_, _)
InsertByIndex(s, x) ==
    IF s = <<>> THEN <<x>>
    ELSE IF x.i < Head(s).i THEN <<x>> \o s
    ELSE <<Head(s)>> \o InsertByIndex(Tail(s), x)

RECURSIVE SortByIndex(_)
SortByIndex(s) ==
    IF s = <<>> THEN <<>>
    ELSE InsertByIndex(SortByIndex(SubSeq(s, 1, Len(s) - 1)), s[Len(s)])

\* The loop over the sorted results with no test of processed
RECURSIVE KeepAll(_)
KeepAll(rs) ==
    IF rs = <<>> THEN <<>>
    ELSE <<Head(rs).processed>> \o KeepAll(Tail(rs))

\* for i, processed in sorted(results): if processed: append
RECURSIVE KeepProcessed(_)
KeepProcessed(rs) ==
    IF rs = <<>> THEN <<>>
    ELSE (IF Head(rs).processed # <<>> THEN <<Head(rs).processed>> ELSE <<>>)
         \o KeepProcessed(Tail(rs))

\* The results are all there: processed_segments is built and returned
BatchReturn ==
    /\ valid_results = <<>>
    /\ Len(results) = Len(futures)
    /\ valid_results' = <<KeepProcessed(SortByIndex(results))>>
    /\ UNCHANGED <<futures, max_workers, yielded, results, mixVars, notBatch>>

NextBatch ==
    \/ BatchSetupRaises
    \/ \E i \in 1..Len(futures) : WorkerStart(i)
    \/ \E i \in 1..Len(futures) : BatchWorkerFinish(i)
    \/ BatchCollect
    \/ BatchReturn

SpecBatch == InitBatch /\ [][NextBatch]_vars

(***************************************************************************)
(* ProfessionalAudioProcessor.apply_professional_processing, followed by   *)
(* the peak level of the buffer: [silent, db], db in hundredths of a dB    *)
(* relative to full scale.  Gains of the table are in tenths.              *)
(***************************************************************************)
processing_chains ==
    [t \in {"Best Of", "Media Meltdown", "Conspiracy Corner", "Donation Nation",
            "Musical Mayhem"} |->
        CASE t = "Best Of" ->
                 [eq_low_gain |-> 20, eq_high_gain |-> 12,
                  limiter_threshold |-> -50,
                  description |-> "Warm, polished broadcast sound"]
          [] t = "Media Meltdown" ->
                 [eq_low_gain |-> 15, eq_high_gain |-> 20,
                  limiter_threshold |-> -30,
                  description |-> "Aggressive, in-your-face processing"]
          [] t = "Conspiracy Corner" ->
                 [eq_low_gain |-> 8, eq_high_gain |-> 9,
                  limiter_threshold |-> -70,
                  description |-> "Dark, mysterious atmosphere"]
          [] t = "Donation Nation" ->
                 [eq_low_gain |-> 22, eq_high_gain |-> 15,
                  limiter_threshold |-> -40,
                  description |-> "Full, celebratory sound"]
          [] t = "Musical Mayhem" ->
                 [eq_low_gain |-> 18, eq_high_gain |-> 16,
                  limiter_threshold |-> -60,
                  description |-> "Optimized for musical content"]]

BuiltInThemes == DOMAIN processing_chains

\* The built-in keys and a key that is none of them
Themes == BuiltInThemes \cup {"Unknown Theme"}

\* self.processing_chains.get(theme, self.processing_chains['Best Of'])
Settings(t) ==
    IF t \in DOMAIN processing_chains THEN processing_chains[t]
    ELSE processing_chains["Best Of"]

Level(d) == [silent |-> FALSE, db |-> d]

\* Peak levels a buffer may have
Levels == {0, -10, -30, -50, -70, -100, -600}

\* pydub.effects.normalize(seg): the gain that brings the peak to its default
\* headroom of 0.1 dB under full scale; a silent buffer is returned as it is
NormalizeHeadroom == 10

normalize(seg) == IF seg.silent THEN seg ELSE Level(-NormalizeHeadroom)

\* A filter and a gain change the peak of a buffer that is not silent
Reshaped(seg) == IF seg.silent THEN {seg} ELSE {Level(d) : d \in Levels}

\* if max_dBFS > limiter_threshold: apply_gain(limiter_threshold - max_dBFS)
Limited(seg, limiter_threshold) ==
    IF ~seg.silent /\ seg.db > limiter_threshold
    THEN Level(seg.db + (limiter_threshold - seg.db))
    ELSE seg

notChain == <<selVars, parVars, mixVars, prodVars, xfVars, pmVars, pmsVars, liteVars>>

InitChain ==
    /\ theme \in Themes
    /\ audio \in {Silent} \cup {Level(d) : d \in Levels}
    /\ processed = Silent
    /\ chainPc = "normalize"
    /\ SelIdle
    /\ ParIdle
    /\ MixIdle
    /\ ProdIdle
    /\ XfIdle
    /\ PmIdle
    /\ PmsIdle
    /\ LiteIdle

\* Step 1: processed = normalize(audio)
ChainNormalize ==
    /\ chainPc = "normalize"
    /\ processed' = normalize(audio)
    /\ chainPc' = "eq_low"
    /\ UNCHANGED <<theme, audio, notChain>>

\* Step 2, low frequencies: applied when eq_low_gain != 1.0
ChainEqLow ==
    /\ chainPc = "eq_low"
    /\ IF Settings(theme).eq_low_gain # 10
       THEN processed' \in Reshaped(processed)
       ELSE processed' = processed
    /\ chainPc' = "eq_high"
    /\ UNCHANGED <<theme, audio, notChain>>

\* Step 2, high frequencies: applied when eq_high_gain != 1.0
ChainEqHigh ==
    /\ chainPc = "eq_high"
    /\ IF Settings(theme).eq_high_gain # 10
       THEN processed' \in Reshaped(processed)
       ELSE processed' = processed
    /\ chainPc' = "compress"
    /\ UNCHANGED <<theme, audio, notChain>>

\* Step 3: compress_dynamic_range
ChainCompress ==
    /\ chainPc = "compress"
    /\ processed' \in Reshaped(processed)
    /\ chainPc' = "limit"
    /\ UNCHANGED <<theme, audio, notChain>>

\* Step 4: the limiter
ChainLimit ==
    /\ chainPc = "limit"
    /\ processed' = Limited(processed, Settings(theme).limiter_threshold)
    /\ chainPc' = "final"
    /\ UNCHANGED <<theme, audio, notChain>>

\* Step 5: processed = normalize(processed); return processed
ChainFinalNormalize ==
    /\ chainPc = "final"
    /\ processed' = normalize(processed)
    /\ chainPc' = "done"
    /\ UNCHANGED <<theme, audio, notChain>>

\* A step raises: the except branch returns audio
ChainRaises ==
    /\ chainPc \in {"normalize", "eq_low", "eq_high", "compress", "limit", "final"}
    /\ processed' = audio
    /\ chainPc' = "raised"
    /\ UNCHANGED <<theme, audio, notChain>>

NextChain ==
    \/ ChainNormalize
    \/ ChainEqLow
    \/ ChainEqHigh
    \/ ChainCompress
    \/ ChainLimit
    \/ ChainFinalNormalize
    \/ ChainRaises

SpecChain == InitChain /\ [][NextChain]_vars

(***************************************************************************)
(* ProductionMixer.create_professional_mix_production: load, analyse,     *)
(* select, mix, upload, presign, respond.  The source behind episode_url   *)
(* is the energy sequence rms at sample rate sr.                           *)
(***************************************************************************)
notProd == <<parVars, xfVars, chainVars, pmVars, pmsVars, liteVars>>

RECURSIVE Repeat(_, _)
Repeat(x, n) == IF n = 0 THEN <<>> ELSE <<x>> \o Repeat(x, n - 1)

\* Quiet frames around three bursts of BurstFrames loud frames each
Quiet == Repeat(1, MaxProdFrames + 2)
Burst == Repeat(2, BurstFrames)
BurstSource ==
    Quiet \o Burst \o Quiet \o Burst \o Quiet \o Burst
          \o Quiet \o Quiet \o Quiet \o Quiet

ProdSources == {Repeat(1, n) : n \in 2..MaxProdFrames} \cup {BurstSource}

\* Sources of 2 seconds a frame
ProdSampleRates == {256}

TargetDurations == {30, 240, 300}

\* len(full_audio): the milliseconds of the samples written, rounded
AudioMillis(samples, rate) == (2000 * samples + rate) \div (2 * rate)

Min(a, b) == IF a < b THEN a ELSE b
Max(a, b) == IF a > b THEN a ELSE b

\* target_segments = min(5, max(3, target_duration // 60))
TargetSegments(td) == Min(5, Max(3, td \div 60))

\* The defaults of intelligent_segment_selection, in seconds
DefaultMinDuration == <<10, 1>>
DefaultMaxDuration == <<30, 1>>

\* _error_response(message)
ErrorResponse(message) ==
    [status |-> "error", message |-> message,
     segments_count |-> <<>>, selection_method |-> <<>>,
     processing_chain |-> <<>>]

\* self.audio_processor.processing_chains.get(theme, {}).get('description', '')
ChainDescription(t) ==
    IF t \in DOMAIN processing_chains THEN processing_chains[t].description
    ELSE ""

\* The response of a run that got to the end
SuccessResponse(segs, t) ==
    [status |-> "success", message |-> "Professional mix created successfully",
     segments_count |-> <<Len(segs)>>,
     selection_method |-> IF segs # <<>> THEN segs[1].selection_method
                          ELSE <<"none">>,
     processing_chain |-> <<ChainDescription(t)>>]

\* metrics.track_error(error_type, ...)
TrackError(m, error_type) == [m EXCEPT !.errors = Append(@, error_type)]

\* metrics.emit_metrics()
EmitMetrics(m) == [m EXCEPT !.emitted = @ + 1]

\* return self._error_response(message), then the finally block
ProdReturnError(m, message) ==
    /\ metrics' = m
    /\ response' = <<ErrorResponse(message)>>
    /\ prodPc' = "done"

InitProd ==
    /\ rms \in ProdSources
    /\ sr \in ProdSampleRates
    /\ analysis = NotAnalysed
    /\ calls = <<>>
    /\ ParIdle
    /\ MixIdle
    /\ XfIdle
    /\ theme \in Themes
    /\ audio = Silent
    /\ processed = Silent
    /\ chainPc = "idle"
    /\ prodPc = "load"
    /\ target_duration \in TargetDurations
    /\ audio_data = <<>>
    /\ metrics = [errors |-> <<>>, emitted |-> 0]
    /\ uploads = <<>>
    /\ response = <<>>
    /\ PmIdle
    /\ PmsIdle
    /\ LiteIdle

\* audio_data, sr = load_audio_from_url(episode_url)
ProdLoad ==
    /\ prodPc = "load"
    /\ audio_data' = <<SamplesOf(rms)>>
    /\ prodPc' = "analyze"
    /\ UNCHANGED <<selVars, mixVars, target_duration, metrics, uploads,
                   response, notProd>>

\* load_audio_from_url returns None: unpacking it raises TypeError, which the
\* except branch of the run catches
ProdLoadFails ==
    /\ prodPc = "load"
    /\ ProdReturnError(EmitMetrics(TrackError(metrics, "production_pipeline")),
                       "Mix creation failed")
    /\ UNCHANGED <<selVars, mixVars, target_duration, audio_data, uploads,
                   notProd>>

\* analysis = analyze_audio_advanced(audio_data, sr), not failed
ProdAnalyze ==
    /\ prodPc = "analyze"
    /\ analysis' = analyze_audio_advanced(rms, sr)
    /\ rms' = <<>>
    /\ prodPc' = "select"
    /\ UNCHANGED <<sr, calls, mixVars, target_duration, audio_data, metrics,
                   uploads, response, notProd>>

\* analyze_audio_advanced returns analysis_type 'failed': the run returns
ProdAnalyzeFails ==
    /\ prodPc = "analyze"
    /\ analysis' = AnalysisFailed
    /\ rms' = <<>>
    /\ ProdReturnError(TrackError(metrics, "audio_analysis"),
                       "Audio analysis failed")
    /\ UNCHANGED <<sr, calls, mixVars, target_duration, audio_data, uploads,
                   notProd>>

\* segments = intelligent_segment_selection(analysis, target_segments), then
\* the call of create_professional_mix(audio_data, sr, segments, theme)
ProdSelect ==
    /\ prodPc = "select"
    /\ LET p == [target_segments |-> TargetSegments(target_duration),
                 min_duration |-> DefaultMinDuration[1],
                 max_duration |-> DefaultMaxDuration[1]]
           out == intelligent_segment_selection(
                      analysis, p.target_segments,
                      DefaultMinDuration, DefaultMaxDuration)
       IN  /\ analysis' = out.analysis
           /\ calls' = Append(calls, [params |-> p, selected |-> out.selected])
           /\ segments' = out.selected
           /\ IF out.selected = <<>>
              THEN /\ ProdReturnError(metrics, "No suitable segments found")
                   /\ UNCHANGED <<full_audio, mixPc>>
              ELSE /\ full_audio' = AudioMillis(audio_data[1], sr)
                   /\ mixPc' = "start"
                   /\ prodPc' = "mix"
                   /\ UNCHANGED <<metrics, response>>
    /\ UNCHANGED <<rms, sr, mix_segments, mixI, exports, output_path,
                   target_duration, audio_data, uploads, notProd>>

\* create_professional_mix has returned mix_file_path
\* MixFileMissing testing for None only
MixFileIsNone(path) == path = "None"

\* not mix_file_path: None and '' are both false
MixFileMissing(path) == path \in {"None", ""}

ProdMixReturned ==
    /\ prodPc = "mix"
    /\ mixPc = "done"
    /\ IF MixFileMissing(output_path[1])
       THEN ProdReturnError(TrackError(metrics, "mix_creation"),
                            "Failed to create mix file")
       ELSE /\ prodPc' = "upload"
            /\ UNCHANGED <<metrics, response>>
    /\ UNCHANGED <<selVars, mixVars, target_duration, audio_data, uploads,
                   notProd>>

\* upload_fileobj of the mix file
ProdUpload ==
    /\ prodPc = "upload"
    /\ uploads' = Append(uploads, exports[Len(exports)])
    /\ prodPc' = "presign"
    /\ UNCHANGED <<selVars, mixVars, target_duration, audio_data, metrics,
                   response, notProd>>

\* os.path.getsize or upload_fileobj raises: the inner except branch
ProdUploadFails ==
    /\ prodPc = "upload"
    /\ ProdReturnError(metrics, "Failed to upload mix to S3")
    /\ UNCHANGED <<selVars, mixVars, target_duration, audio_data, uploads,
                   notProd>>

\* generate_presigned_url gives a URL: metrics are emitted, the response built
ProdRespond ==
    /\ prodPc = "presign"
    /\ metrics' = EmitMetrics(metrics)
    /\ response' = <<SuccessResponse(segments, theme)>>
    /\ prodPc' = "done"
    /\ UNCHANGED <<selVars, mixVars, target_duration, audio_data, uploads,
                   notProd>>

\* generate_presigned_url gives nothing
ProdPresignFails ==
    /\ prodPc = "presign"
    /\ ProdReturnError(metrics, "Failed to generate download URL")
    /\ UNCHANGED <<selVars, mixVars, target_duration, audio_data, uploads,
                   notProd>>

NextProd ==
    \/ ProdLoad
    \/ ProdLoadFails
    \/ ProdAnalyze
    \/ ProdAnalyzeFails
    \/ ProdSelect
    \/ MixBegin
    \/ MixSetupRaises
    \/ MixSegment
    \/ MixOutro
    \/ MixExport
    \/ ProdMixReturned
    \/ ProdUpload
    \/ ProdUploadFails
    \/ ProdRespond
    \/ ProdPresignFails

SpecProd == InitProd /\ [][NextProd]_vars

(***************************************************************************)
(* ProfessionalAudioMixer.crossfade_segments.  A sample is the set of the  *)
(* input samples <<segment, offset>> that are summed into it.              *)
(***************************************************************************)
notXf == <<selVars, parVars, mixVars, prodVars, chainVars, pmVars, pmsVars, liteVars>>

\* A segment of n samples, the k-th of the list
Buffer(k, n) == [j \in 1..n |-> {<<k, j>>}]

\* int(crossfade_duration * self.sample_rate), crossfade_duration a rational
CrossfadeSamples(crossfade_duration, sample_rate) ==
    (crossfade_duration[1] * sample_rate) \div crossfade_duration[2]

XfSampleRates == {2, 4}
XfDurations == {Rat(1, 2), Rat(1, 1)}

\* overlap_end * fade_out + overlap_start * fade_in, sample by sample
Crossfaded(overlap_end, overlap_start) ==
    [j \in 1..Len(overlap_end) |-> overlap_end[j] \cup overlap_start[j]]

\* Join that keeps the whole of current_segment after the crossfade
JoinKeepHead(result, current_segment, n) ==
    IF Len(result) > n /\ Len(current_segment) > n
    THEN SubSeq(result, 1, Len(result) - n)
         \o Crossfaded(SubSeq(result, Len(result) - n + 1, Len(result)),
                       SubSeq(current_segment, 1, n))
         \o current_segment
    ELSE result \o current_segment

\* One round of the loop: result joined with current_segment
Join(result, current_segment, n) ==
    IF Len(result) > n /\ Len(current_segment) > n
    THEN SubSeq(result, 1, Len(result) - n)
         \o Crossfaded(SubSeq(result, Len(result) - n + 1, Len(result)),
                       SubSeq(current_segment, 1, n))
         \o SubSeq(current_segment, n + 1, Len(current_segment))
    ELSE result \o current_segment

InitXf ==
    /\ \E m \in 0..MaxXfSegments :
          \E lens \in [1..m -> 1..MaxXfLen] :
              xfSegments = [k \in 1..m |-> Buffer(k, lens[k])]
    /\ \E d \in XfDurations, rate \in XfSampleRates :
          crossfade_samples = CrossfadeSamples(d, rate)
    /\ xfResult = <<>>
    /\ xfI = 0
    /\ xfPc = "start"
    /\ SelIdle
    /\ ParIdle
    /\ MixIdle
    /\ ProdIdle
    /\ ChainIdle
    /\ PmIdle
    /\ PmsIdle
    /\ LiteIdle

\* No segments: np.array([]) is returned; one segment: it is returned
XfReturnEarly ==
    /\ xfPc = "start"
    /\ Len(xfSegments) <= 1
    /\ xfResult' = IF xfSegments = <<>> THEN <<>> ELSE xfSegments[1]
    /\ xfPc' = "done"
    /\ UNCHANGED <<xfSegments, crossfade_samples, xfI, notXf>>

\* result = segments[0]
XfBegin ==
    /\ xfPc = "start"
    /\ Len(xfSegments) > 1
    /\ xfResult' = xfSegments[1]
    /\ xfI' = 1
    /\ xfPc' = "loop"
    /\ UNCHANGED <<xfSegments, crossfade_samples, notXf>>

\* for i in range(1, len(segments)): one round
XfJoin ==
    /\ xfPc = "loop"
    /\ xfI < Len(xfSegments)
    /\ xfResult' = Join(xfResult, xfSegments[xfI + 1], crossfade_samples)
    /\ xfI' = xfI + 1
    /\ UNCHANGED <<xfSegments, crossfade_samples, xfPc, notXf>>

\* return result
XfReturn ==
    /\ xfPc = "loop"
    /\ xfI = Len(xfSegments)
    /\ xfPc' = "done"
    /\ UNCHANGED <<xfSegments, crossfade_samples, xfResult, xfI, notXf>>

NextXf ==
    \/ XfReturnEarly
    \/ XfBegin
    \/ XfJoin
    \/ XfReturn

SpecXf == InitXf /\ [][NextXf]_vars

(***************************************************************************)
(* Properties of the parallel runner, the mix, the production run and the  *)
(* crossfade                                                               *)
(***************************************************************************)
\* The results of the segments that did not fail, in the order of the input list
RECURSIVE InInputOrder(_, _)
InInputOrder(fs, i) ==
    IF i > Len(fs) THEN <<>>
    ELSE (IF fs[i].raises THEN <<>> ELSE <<i>>) \o InInputOrder(fs, i + 1)

\* C1: parallel_segment_processing returns the successful results in the
\* order of the input segments list, whatever the order in which the worker
\* futures complete.
C1_ResultsInInputOrder ==
    valid_results # <<>> => valid_results[1] = InInputOrder(futures, 1)

\* The places in the candidate list of the segments that parts holds, in order
RECURSIVE SegmentIndexes(_)
SegmentIndexes(parts) ==
    IF parts = <<>> THEN <<>>
    ELSE (IF Head(parts).kind = "segment" THEN <<Head(parts).index>> ELSE <<>>)
         \o SegmentIndexes(Tail(parts))

\* The places from i on at which keep is TRUE, ascending
RECURSIVE IndexesWhere(_, _)
IndexesWhere(keep, i) ==
    IF i > Len(keep) THEN <<>>
    ELSE (IF keep[i] THEN <<i>> ELSE <<>>) \o IndexesWhere(keep, i + 1)

\* The source audio is len milliseconds long
SourceEnd(len) == Rat(len, 1000)

\* [timestamp, timestamp + duration) starts inside the source and does not
\* end past its end
WithinSource(c) ==
    /\ RLt(Ts(c), SourceEnd(full_audio))
    /\ RLe(RAdd(Ts(c), c.duration), SourceEnd(full_audio))

\* The same with the start and the duration each cut to whole milliseconds
WithinSourceMs(c) ==
    /\ Millis(Ts(c)) < full_audio
    /\ Millis(Ts(c)) + Millis(c.duration) <= full_audio

\* The places of the candidates within the source, exactly and in milliseconds
Within == IndexesWhere([i \in 1..Len(segments) |-> WithinSource(segments[i])], 1)
WithinMs == IndexesWhere([i \in 1..Len(segments) |-> WithinSourceMs(segments[i])], 1)

\* The loop over the candidates is over and the run was not ended by setup
MixAssembled == mixPc \in {"export", "done"} /\ mix_segments # <<>>

\* The mix is handed to audio.export once, as assembled
MixProduced ==
    mixPc = "done" =>
        /\ Len(exports) = 1
        /\ exports[1].parts = mix_segments
        /\ output_path # <<"None">>

\* C3 (as stated): in create_professional_mix a candidate whose range
\* [timestamp, timestamp + duration) ends past the end of the source audio is
\* dropped, every other candidate is included in its original order, and the
\* run still produces a mix.
C3_OutOfRangeDropped ==
    MixAssembled =>
        /\ SegmentIndexes(mix_segments) = Within
        /\ MixProduced

\* C3 (amended): in create_professional_mix a candidate is dropped when its
\* start, cut to whole milliseconds, is not before the end of the source or
\* its start plus its duration, each cut to whole milliseconds, is past the
\* end; every other candidate is included in its original order, each with its
\* duration in whole milliseconds, and the run still produces a mix.
C3_OutOfRangeMsDropped ==
    MixAssembled =>
        /\ SegmentIndexes(mix_segments) = WithinMs
        /\ \A j \in 1..Len(mix_segments) :
              mix_segments[j].kind = "segment" =>
                  mix_segments[j].ms = Millis(segments[mix_segments[j].index].duration)
        /\ MixProduced

\* Three candidates, exactly one of them out of range, and the mix exported
\* holds the two others
C3_Witness ==
    /\ mixPc = "done"
    /\ Len(segments) = 3
    /\ Len(WithinMs) = 2
    /\ output_path = <<"mix.mp3">>
    /\ Len(exports) = 1
    /\ SegmentIndexes(exports[1].parts) = WithinMs

\* C4: in create_professional_mix the audio of a candidate whose processing
\* failed is not part of the mix that is exported.
C4_FailedSegmentExcluded ==
    \A k \in 1..Len(exports) :
        \A j \in 1..Len(exports[k].parts) :
            exports[k].parts[j].kind = "segment" =>
                exports[k].parts[j].processing # "raw"

\* C2: when no candidate segment survives, the run ends in failure: no mix is
\* handed to audio.export, none is uploaded, and the response is an error.
C2_NoSurvivorIsFailure ==
    (MixAssembled /\ SegmentIndexes(mix_segments) = <<>>) =>
        /\ exports = <<>>
        /\ uploads = <<>>
        /\ prodPc = "done" => response[1].status = "error"

\* C5: when analyze_audio_advanced returns analysis_type 'failed', the
\* production run does not end there: Distributed segments are selected and
\* the run goes on to mixing.
C5_FailedAnalysisFallsBack ==
    (analysis.analysis_type = "failed" /\ prodPc = "done") =>
        /\ segments # <<>>
        /\ Distributed(segments)
        /\ mixPc # "idle"

\* Boundary b lies between segments b and b + 1; it is overlapped when a
\* sample of the result sums a sample of segment b + 1 with an earlier one
Overlapped(b) ==
    \E j \in 1..Len(xfResult) :
        \E x \in xfResult[j], y \in xfResult[j] : x[1] = b + 1 /\ y[1] <= b

\* C10: at every boundary where the buffer before or the buffer after it is
\* shorter than the transition, crossfade_segments joins the two by plain
\* concatenation, without overlap.
C10_ShortBufferHardCut ==
    \A b \in 1..(xfI - 1) :
        (\/ Len(xfSegments[b]) < crossfade_samples
         \/ Len(xfSegments[b + 1]) < crossfade_samples) => ~Overlapped(b)

\* The samples of the first n segments, counted
RECURSIVE TotalLen(_, _)
TotalLen(segs, n) == IF n = 0 THEN 0 ELSE Len(segs[n]) + TotalLen(segs, n - 1)

\* The boundaries joined so far at which the crossfade branch was taken
CrossfadedBoundaries == {b \in 1..(xfI - 1) : Overlapped(b)}

C12_ReturnsDespiteHungWorker == <>(valid_results # <<>>)

\* Every worker of the batch has returned
BatchWorkersDone == \A i \in 1..Len(futures) : futures[i].state = "finished"

\* The places of the candidates in range whose worker did not fail
BatchSurvivors ==
    IndexesWhere([i \in 1..Len(segments) |->
                     ~futures[i].raises /\ WithinSourceMs(segments[i])], 1)

C14_PeakWithinLimiter ==
    chainPc = "done" =>
        \/ processed.silent
        \/ processed.db <= Settings(theme).limiter_threshold + 1

\* C15: a theme key that is none of the built-in keys is resolved to the
\* 'Best Of' profile: the settings used are those of 'Best Of' and the
\* processing_chain the production response reports is that of 'Best Of'.
C15_UnknownThemeIsBestOf ==
    /\ \A t \in Themes \ BuiltInThemes : Settings(t) = processing_chains["Best Of"]
    /\ (prodPc = "done" /\ response[1].status = "success"
          /\ theme \notin BuiltInThemes) =>
          response[1].processing_chain =
              <<processing_chains["Best Of"].description>>

\* C16: every segment create_distributed_segments(duration, count,
\* min_duration) returns, for duration > 0, has timestamp >= 0,
\* duration >= min_duration and timestamp + duration <= the source duration.
C16_DistributedWithinSource ==
    \A k \in 1..Len(calls) :
        LET cs == calls[k].selected
            d == DurationOf(analysis)
            m == <<calls[k].params.min_duration, 1>>
        IN  (Distributed(cs) /\ RLt(<<0, 1>>, d)) =>
                \A i \in 1..Len(cs) :
                    /\ RLe(<<0, 1>>, Ts(cs[i]))
                    /\ RLe(m, cs[i].duration)
                    /\ RLe(RAdd(Ts(cs[i]), cs[i].duration), d)

\* C17: the metrics of a production run are emitted exactly once on every
\* path by which the run ends, never zero times and never twice.
C17_MetricsEmittedOnce ==
    /\ metrics.emitted <= 1
    /\ prodPc = "done" => metrics.emitted = 1

\* C18: every terminal failure the production run returns carries a reason
\* string together with the selection_method and the segment count of the run.
C18_FailureCarriesContext ==
    (prodPc = "done" /\ response[1].status = "error") =>
        /\ response[1].message # ""
        /\ response[1].selection_method # <<>>
        /\ response[1].segments_count # <<>>

\* The energy runs of the analysis that pass the duration filter of call c
UsableRuns(c) ==
    LET segs == analysis.high_energy_segments
        valid == ValidSegments(segs, <<c.params.min_duration, 1>>,
                               <<c.params.max_duration, 1>>, 1)
    IN  [j \in 1..Len(valid) |-> segs[valid[j]]]

\* C19: with fewer than target_segments usable energy runs the selection
\* falls back to Distributed segments, and when 1 <= k < target_segments runs
\* were found the list returned still holds those k runs.
C19_FoundRunsKept ==
    \A n \in 1..Len(calls) :
        LET c == calls[n]
            runs == UsableRuns(c)
        IN  Len(runs) < c.params.target_segments =>
                /\ Len(runs) = 0 => Distributed(c.selected)
                /\ \A j \in 1..Len(runs) :
                       \E i \in 1..Len(c.selected) :
                           /\ c.selected[i].selection_method = <<"energy_based">>
                           /\ c.selected[i].timestamp = runs[j].start_time

(***************************************************************************)
(* ProfessionalAudioMixer.create_professional_mix and                      *)
(* extract_and_process_segment.  Buffers are known by their length in      *)
(* samples; the source is at the mixer's sample rate.                      *)
(***************************************************************************)
MaxPmSamples == 4
MaxPmStart == 1
MaxPmDur == 2
MaxPmSegments == 2
MaxPmMusic == 1

PmSampleRates == {1, 2}
PmTargetDurations == {3, 32}

notPm == <<selVars, parVars, mixVars, prodVars, xfVars, chainVars, pmsVars, liteVars>>

\* A candidate of the selection: a timestamp on the half-second grid and a
\* duration in whole seconds
PmCandidates ==
    {[timestamp |-> Rat(k, 2), duration |-> d] :
        k \in 0..(2 * MaxPmStart), d \in 1..MaxPmDur}

\* int(start_time * sr)
start_sample(c, rate) == (c.timestamp[1] * rate) \div c.timestamp[2]

\* int((start_time + duration) * sr)
end_sample(c, rate) ==
    ((c.timestamp[1] + c.duration * c.timestamp[2]) * rate) \div c.timestamp[2]

\* len(audio[a:b]) for 0 <= a <= b on a buffer of n samples
SliceLen(n, a, b) == Max(0, Min(b, n) - Min(a, n))

\* extract_and_process_segment: the length of the array it returns.  The
\* effects and the fades keep the length of the slice; when the mixing
\* chain raises the result is the empty array.
extract_and_process_segment(n, rate, c, raises) ==
    IF raises THEN 0
    ELSE SliceLen(n, start_sample(c, rate), end_sample(c, rate))

\* generate_music_with_fal: None, or the music generated
PmMusic == {<<>>} \cup {<<m>> : m \in 1..MaxPmMusic}

MusicParts(kind, music) ==
    IF music = <<>> THEN <<>>
    ELSE <<[kind |-> kind, index |-> 0, len |-> music[1]]>>

InitPm ==
    /\ pmAudio \in 1..MaxPmSamples
    /\ pmSr \in PmSampleRates
    /\ pmTargetDuration \in PmTargetDurations
    /\ pmSegments \in SeqsUpTo(PmCandidates, MaxPmSegments)
    /\ pmMixSegments = <<>>
    /\ pmTotalDuration = 0
    /\ pmI = 0
    /\ pmPc = "intro"
    /\ pmOutput = <<>>
    /\ SelIdle
    /\ ParIdle
    /\ MixIdle
    /\ ProdIdle
    /\ XfIdle
    /\ ChainIdle
    /\ PmsIdle
    /\ LiteIdle

\* The intro music, when there is one, opens the mix
PmIntro ==
    /\ pmPc = "intro"
    /\ \E intro_music \in PmMusic :
          /\ pmMixSegments' = MusicParts("intro", intro_music)
          /\ pmTotalDuration' = IF intro_music = <<>> THEN 0 ELSE intro_music[1]
    /\ pmPc' = "loop"
    /\ UNCHANGED <<pmAudio, pmSr, pmTargetDuration, pmSegments, pmI, pmOutput>>
    /\ UNCHANGED notPm

\* TargetReached with the break never taken
TargetNeverReached(total, target, rate) == FALSE

\* total_duration >= target_duration, total_duration being total / rate
TargetReached(total, target, rate) == total >= target * rate

\* One round of the loop over segments
PmSegment ==
    /\ pmPc = "loop"
    /\ pmI < Len(pmSegments)
    /\ ~TargetReached(pmTotalDuration, pmTargetDuration, pmSr)
    /\ \E raises \in BOOLEAN, transition_music \in PmMusic :
          LET i == pmI + 1
              len == extract_and_process_segment(pmAudio, pmSr,
                                                 pmSegments[i], raises)
              total == pmTotalDuration + len
              part == [kind |-> "segment", index |-> i, len |-> len]
              transition ==
                  IF /\ i < Len(pmSegments)
                     /\ total < (pmTargetDuration - 30) * pmSr
                  THEN transition_music
                  ELSE <<>>
          IN  IF len > 0
              THEN /\ pmMixSegments' = pmMixSegments \o <<part>> \o
                                          MusicParts("transition", transition)
                   /\ pmTotalDuration' =
                         total + (IF transition = <<>> THEN 0 ELSE transition[1])
              ELSE UNCHANGED <<pmMixSegments, pmTotalDuration>>
    /\ pmI' = pmI + 1
    /\ UNCHANGED <<pmAudio, pmSr, pmTargetDuration, pmSegments, pmPc, pmOutput>>
    /\ UNCHANGED notPm

\* The loop is over, or left by its break: the outro music closes the mix
PmOutro ==
    /\ pmPc = "loop"
    /\ \/ pmI = Len(pmSegments)
       \/ TargetReached(pmTotalDuration, pmTargetDuration, pmSr)
    /\ \E outro_music \in PmMusic :
          pmMixSegments' = pmMixSegments \o MusicParts("outro", outro_music)
    /\ pmPc' = "combine"
    /\ UNCHANGED <<pmAudio, pmSr, pmTargetDuration, pmSegments,
                   pmTotalDuration, pmI, pmOutput>>
    /\ UNCHANGED notPm

\* No segments to mix
PmReturnNone ==
    /\ pmPc = "combine"
    /\ pmMixSegments = <<>>
    /\ pmOutput' = <<"None">>
    /\ pmPc' = "done"
    /\ UNCHANGED <<pmAudio, pmSr, pmTargetDuration, pmSegments, pmMixSegments,
                   pmTotalDuration, pmI>>
    /\ UNCHANGED notPm

\* The parts are crossfaded, mastered and exported: the path of the mp3, or
\* '' when the export failed
PmReturnExport ==
    /\ pmPc = "combine"
    /\ pmMixSegments # <<>>
    /\ \E path \in {"mix.mp3", ""} : pmOutput' = <<path>>
    /\ pmPc' = "done"
    /\ UNCHANGED <<pmAudio, pmSr, pmTargetDuration, pmSegments, pmMixSegments,
                   pmTotalDuration, pmI>>
    /\ UNCHANGED notPm

NextPm ==
    \/ PmIntro
    \/ PmSegment
    \/ PmOutro
    \/ PmReturnNone
    \/ PmReturnExport

SpecPm == InitPm /\ [][NextPm]_vars

\* The segments of the candidate list whose range exceeds the source buffer
PmOutOfRange ==
    {i \in 1..Len(pmSegments) : end_sample(pmSegments[i], pmSr) > pmAudio}

\* C20: a candidate whose range [start_time, start_time + duration) exceeds
\* the source buffer is never a part of the mix: the caller skips it.
C20_OutOfRangeNeverMixed ==
    \A k \in 1..Len(pmMixSegments) :
        pmMixSegments[k].kind = "segment" =>
            pmMixSegments[k].index \notin PmOutOfRange

\* The runs of the list runs that hold the timestamp t
RunsHolding(runs, t) ==
    {j \in 1..Len(runs) :
        /\ RLe(runs[j].start_time[1], t)
        /\ RLe(t, runs[j].end_time[1])}

\* The runs partition the timestamps times
PartitionsTimes(runs, times) ==
    /\ \A k \in 1..Len(times) : Cardinality(RunsHolding(runs, times[k])) = 1
    /\ \A k \in 1..(Len(times) - 1) :
           (RunsHolding(runs, times[k]) = RunsHolding(runs, times[k + 1]))
               <=> RLe(RSub(times[k + 1], times[k]), <<2, 1>>)
    /\ \A j \in 1..(Len(runs) - 1) :
           RLt(runs[j].end_time[1], runs[j + 1].start_time[1])

\* C21: the runs of an advanced analysis partition the above-threshold
\* timestamps: each timestamp lies in exactly one run (a single timestamp at
\* the end of the list too), two consecutive timestamps share a run iff
\* their gap is at most 2.0 seconds, and the runs are disjoint and ascending.
C21_RunsPartitionTimes ==
    [][Analyze => PartitionsTimes(analysis'.high_energy_segments,
                                  HighEnergyTimes(rms, sr))]_vars

\* C22: every candidate segment that enters the mix has a fade-in and a
\* fade-out applied, the first segment of the mix too.
C22_EverySegmentFaded ==
    \A k \in 1..Len(mix_segments) :
        mix_segments[k].kind = "segment" =>
            /\ mix_segments[k].fade_in
            /\ mix_segments[k].fade_out

(***************************************************************************)
(* ProfessionalAudioMixer.intelligent_segment_selection and                *)
(* create_fallback_segments.  Times are seconds, energies whole numbers.   *)
(***************************************************************************)
MaxPmsTime == 2

PmsEnergies == {1, 2}
PmsTargetSegments == {1, 2}
PmsCallNumbers == {1, 2}

\* np.random.randint(6, 18): 6 <= n < 18
RandLow == 6
RandHigh == 18
RandInts == RandLow..(RandHigh - 1)

notPms == <<selVars, parVars, mixVars, prodVars, xfVars, chainVars, pmVars, liteVars>>

\* The members of a set of times, ascending
Ascending(S) ==
    [k \in 1..Cardinality(S) |->
        CHOOSE t \in S : Cardinality({u \in S : u < t}) = k - 1]

\* sorted(high_energy_segments, key energy, reverse=True): stable
SortedByEnergy(segs) ==
    LET rank(i) == 1 + Cardinality({j \in 1..Len(segs) :
                        \/ segs[j].energy > segs[i].energy
                        \/ segs[j].energy = segs[i].energy /\ j < i})
    IN  [k \in 1..Len(segs) |-> segs[CHOOSE i \in 1..Len(segs) : rank(i) = k]]

\* selected_segments.sort(key timestamp): stable
SortedByTimestamp(sel) ==
    LET rank(i) == 1 + Cardinality({j \in 1..Len(sel) :
                        \/ RLt(sel[j].timestamp, sel[i].timestamp)
                        \/ sel[j].timestamp = sel[i].timestamp /\ j < i})
    IN  [k \in 1..Len(sel) |-> sel[CHOOSE i \in 1..Len(sel) : rank(i) = k]]

\* any(abs(time_pos - s['timestamp']) < min_gap for s in selected_segments)
too_close(time_pos, selected, min_gap) ==
    \E k \in 1..Len(selected) :
        RLt(RAbs(RSub(time_pos, selected[k].timestamp)), min_gap)

HighEnergySegment(n, seg) ==
    [name |-> <<"High Energy Segment", n>>, timestamp |-> Rat(seg.time, 1),
     duration |-> 15 + seg.energy * 10, confidence |-> Rat(seg.energy, 1)]

\* The loop over sorted_segments, from its k-th round
RECURSIVE HighEnergyLoop(_, _, _, _, _)
HighEnergyLoop(sorted, k, selected, target, min_gap) ==
    IF k > Len(sorted) \/ Len(selected) >= target THEN selected
    ELSE IF too_close(Rat(sorted[k].time, 1), selected, min_gap)
         THEN HighEnergyLoop(sorted, k + 1, selected, target, min_gap)
         ELSE HighEnergyLoop(sorted, k + 1,
                  Append(selected, HighEnergySegment(Len(selected) + 1, sorted[k])),
                  target, min_gap)

\* min(onsets, key=lambda x: abs(x - start_time)): the first of the nearest
nearest_onset(onsets, start_time) ==
    LET dist(k) == RAbs(RSub(Rat(onsets[k], 1), start_time))
        k0 == CHOOSE k \in 1..Len(onsets) :
                  /\ \A j \in 1..Len(onsets) : RLe(dist(k), dist(j))
                  /\ \A j \in 1..(k - 1) : RLt(dist(k), dist(j))
    IN  Rat(onsets[k0], 1)

\* The onset-based segmentation; rand[i] is what np.random.randint gave in
\* round i
OnsetSegments(duration, onsets, target, rand) ==
    [i \in 1..target |->
        [name |-> <<"Onset Segment", i>>,
         timestamp |-> nearest_onset(onsets, Rat((i - 1) * duration, target)),
         duration |-> 12 + rand[i], confidence |-> Rat(7, 10)]]

create_fallback_segments(duration, target) ==
    [i \in 1..target |->
        [name |-> <<"Segment", i>>,
         timestamp |-> Rat((2 * i - 1) * duration, 2 * (target + 1)),
         duration |-> 15, confidence |-> Rat(1, 2)]]

\* The lists a call can return
PmsSelections(duration, an, target) ==
    LET selected == HighEnergyLoop(SortedByEnergy(an.high_energy_segments), 1,
                                   <<>>, target, Rat(duration, target * 2))
    IN  IF an.high_energy_segments # <<>> /\ selected # <<>>
        THEN {SortedByTimestamp(selected)}
        ELSE IF an.onsets # <<>>
             THEN {OnsetSegments(duration, an.onsets, target, rand) :
                       rand \in [1..target -> RandInts]}
             ELSE {create_fallback_segments(duration, target)}

InitPms ==
    /\ pmsDuration = MaxPmsTime + 1
    /\ \E T \in SUBSET (0..MaxPmsTime), O \in SUBSET (0..MaxPmsTime) :
          \E e \in [T -> PmsEnergies] :
              pmsAnalysis =
                  [high_energy_segments |->
                       [k \in 1..Cardinality(T) |->
                           [time |-> Ascending(T)[k],
                            energy |-> e[Ascending(T)[k]]]],
                   onsets |-> Ascending(O)]
    /\ pmsTargetSegments \in PmsTargetSegments
    /\ pmsCalls = <<>>
    /\ SelIdle
    /\ ParIdle
    /\ MixIdle
    /\ ProdIdle
    /\ XfIdle
    /\ ChainIdle
    /\ PmIdle
    /\ LiteIdle

\* One call of intelligent_segment_selection with the arguments of the state
PmsSelect ==
    /\ Len(pmsCalls) + 1 \in PmsCallNumbers
    /\ \E selected \in PmsSelections(pmsDuration, pmsAnalysis, pmsTargetSegments) :
          pmsCalls' = Append(pmsCalls, selected)
    /\ UNCHANGED <<pmsDuration, pmsAnalysis, pmsTargetSegments>>
    /\ UNCHANGED notPms

NextPms == PmsSelect

SpecPms == InitPms /\ [][NextPms]_vars

\* C23: two calls with the same audio, analysis and target_segments return
\* the same list, and every list returned is sorted by timestamp.
C23_SelectionDeterministic ==
    /\ \A a, b \in 1..Len(pmsCalls) : pmsCalls[a] = pmsCalls[b]
    /\ \A a \in 1..Len(pmsCalls) :
           \A k \in 1..(Len(pmsCalls[a]) - 1) :
               RLe(pmsCalls[a][k].timestamp, pmsCalls[a][k + 1].timestamp)

\* The export of the mix failed: export_professional_mix returned ''
ExportFailed == exports # <<>> /\ ~exports[Len(exports)].written

\* C24: when the export of the assembled mix fails the production run ends
\* in an error that names the failure; the export is made once and neither
\* the upload nor the presigned-URL step is executed.
C24_ExportFailureIsTerminal ==
    ExportFailed =>
        /\ Len(exports) = 1
        /\ uploads = <<>>
        /\ prodPc \in {"mix", "done"}
        /\ prodPc = "done" =>
               /\ response[1].status = "error"
               /\ response[1].message = "Failed to create mix file"
               /\ metrics.errors = <<"mix_creation">>

C24_Witness ==
    /\ ExportFailed
    /\ prodPc = "done"
    /\ response[1].message = "Failed to create mix file"

(***************************************************************************)
(* The stages of the processing chains, in the order they are applied.     *)
(***************************************************************************)
\* ProfessionalAudioMixer.mixing_chains: the plugins of each Pedalboard
mixing_chains ==
    [t \in BuiltInThemes |->
        CASE t = "Best Of" ->
                 <<"HighpassFilter", "EQ", "EQ", "Compressor", "Reverb",
                   "Limiter">>
          [] t = "Media Meltdown" ->
                 <<"HighpassFilter", "EQ", "EQ", "Compressor", "Gain",
                   "Limiter">>
          [] t = "Conspiracy Corner" ->
                 <<"HighpassFilter", "LowpassFilter", "EQ", "EQ", "Compressor",
                   "Reverb", "Limiter">>
          [] t = "Donation Nation" ->
                 <<"HighpassFilter", "EQ", "EQ", "EQ", "Compressor", "Reverb",
                   "Limiter">>
          [] t = "Musical Mayhem" ->
                 <<"HighpassFilter", "EQ", "EQ", "EQ", "Compressor", "Reverb",
                   "Limiter">>]

\* ProfessionalAudioProcessor.apply_professional_processing: its steps for
\* the settings of theme t (an EQ step is skipped for a gain of 1.0)
ProcessingStages(t) ==
    <<"Normalize">>
    \o (IF Settings(t).eq_low_gain # 10 THEN <<"EQ">> ELSE <<>>)
    \o (IF Settings(t).eq_high_gain # 10 THEN <<"EQ">> ELSE <<>>)
    \o <<"Compressor", "Limiter", "Normalize">>

\* The place of a stage in the canonical order, 0 for a stage outside it
StageRank(stage) ==
    CASE stage = "HighpassFilter" -> 1
      [] stage = "EQ" -> 2
      [] stage = "Compressor" -> 3
      [] stage = "Reverb" -> 4
      [] stage = "Limiter" -> 5
      [] OTHER -> 0

CanonicalOrder(stages) ==
    /\ stages # <<>>
    /\ \A k \in 1..Len(stages) : StageRank(stages[k]) > 0
    /\ \A k \in 1..(Len(stages) - 1) :
           \/ StageRank(stages[k]) < StageRank(stages[k + 1])
           \/ stages[k] = "EQ" /\ stages[k + 1] = "EQ"
    /\ stages[Len(stages)] = "Limiter"

\* C25: the chain of each built-in theme runs high-pass filter, EQ band(s),
\* compressor, reverb, limiter in this order, the limiter last and no other
\* stage in it.
C25_CanonicalStageOrder ==
    (theme \in BuiltInThemes /\ chainPc = "done") =>
        /\ CanonicalOrder(mixing_chains[theme])
        /\ CanonicalOrder(ProcessingStages(theme))

\* C26: the segment count a successful production run reports is the number
\* of candidate segments present in the exported mix, also when selected
\* candidates were skipped as out of range.
C26_ReportedCountIsMixedCount ==
    (prodPc = "done" /\ response[1].status = "success") =>
        response[1].segments_count =
            <<Len(SegmentIndexes(uploads[Len(uploads)].parts))>>

\* The run is over and load_audio_from_url gave no audio
LoadFailed == prodPc = "done" /\ audio_data = <<>>

\* C27: when load_audio_from_url fails the production run returns the error
\* 'Failed to load audio from URL', records an error of type audio_load, and
\* makes no analysis, selection, mix or upload.
C27_LoadFailureReported ==
    LoadFailed =>
        /\ response[1].status = "error"
        /\ response[1].message = "Failed to load audio from URL"
        /\ metrics.errors = <<"audio_load">>
        /\ analysis = NotAnalysed
        /\ calls = <<>>
        /\ exports = <<>>
        /\ uploads = <<>>

\* C28: a call of intelligent_segment_selection leaves the analysis given to
\* it as it was: the entries of high_energy_segments keep their keys, their
\* values and their order.
C28_SelectionKeepsAnalysis ==
    [][Select(Params) => analysis' = analysis]_vars

(***************************************************************************)
(* ProfessionalAudioMixerLite.create_professional_mix_lite, with the       *)
(* temporary directory and the files in it.  The episode is made of whole  *)
(* chunks of 30 s; lengths are in ms.                                      *)
(***************************************************************************)
MaxLiteChunks == 6

LiteDbfs == {-40, -10}
LiteTargetDurations == {30, 300}

\* target_segments: the default of intelligent_segment_selection_basic
LiteTargetSegments == 5

\* chunk_duration
LiteChunkSeconds == 30

notLite == <<selVars, parVars, mixVars, prodVars, xfVars, chainVars, pmVars,
             pmsVars>>

\* len(audio) / 1000
LiteDuration(chunks) == LiteChunkSeconds * Len(chunks)

\* analyze_audio_basic: the chunks whose dbfs is above the average by more
\* than 3, in the order of the episode
RECURSIVE LiteSum(_)
LiteSum(chunks) ==
    IF chunks = <<>> THEN 0 ELSE Head(chunks) + LiteSum(Tail(chunks))

RECURSIVE high_energy_chunks(_, _)
high_energy_chunks(chunks, k) ==
    IF k > Len(chunks) THEN <<>>
    ELSE (IF chunks[k] * Len(chunks) > LiteSum(chunks) + 3 * Len(chunks)
          THEN <<[start_time |-> LiteChunkSeconds * (k - 1),
                  duration |-> LiteChunkSeconds, dbfs |-> chunks[k]]>>
          ELSE <<>>)
         \o high_energy_chunks(chunks, k + 1)

\* sorted(high_energy_chunks, key dbfs, reverse=True): stable
SortedByDbfs(cs) ==
    LET rank(i) == 1 + Cardinality({j \in 1..Len(cs) :
                        \/ cs[j].dbfs > cs[i].dbfs
                        \/ cs[j].dbfs = cs[i].dbfs /\ j < i})
    IN  [k \in 1..Len(cs) |-> cs[CHOOSE i \in 1..Len(cs) : rank(i) = k]]

\* The segments of the high-energy branch
LiteEnergySegments(cs, target) ==
    [i \in 1..target |->
        [name |-> <<"High Energy Segment", i>>,
         timestamp |-> Rat(SortedByDbfs(cs)[i].start_time, 1),
         duration |-> Min(20, SortedByDbfs(cs)[i].duration)]]

\* The segments of the fallback branch (i counts from 1 here)
LiteFallbackSegments(duration, target) ==
    LET segment_gap == Rat(duration, target + 1)
        base_time(i) == Rat(i * duration, target + 1)
        random_offset(i) == (((i - 1) % 3) - 1) * 30
        start_time(i) ==
            RMax(<<0, 1>>, RMin(<<duration - 30, 1>>,
                                RAdd(base_time(i), <<random_offset(i), 1>>)))
    IN  [i \in 1..target |->
            [name |-> <<"Content Segment", i>>,
             timestamp |-> start_time(i),
             duration |-> 15 + ((i - 1) % 3) * 5]]

intelligent_segment_selection_basic(chunks, target) ==
    LET high == high_energy_chunks(chunks, 1)
    IN  SortedByTimestamp(
            IF high # <<>> /\ Len(high) >= target
            THEN LiteEnergySegments(high, target)
            ELSE LiteFallbackSegments(LiteDuration(chunks), target))

\* generate_music_placeholder(prompt, duration)
LiteMusic(kind, seconds) == [kind |-> kind, index |-> 0, ms |-> seconds * 1000]

\* return value on its way out: the finally clause runs before the caller
\* has it
LiteReturn(value) ==
    /\ liteOutput' = <<value>>
    /\ litePc' = "finally"

InitLite ==
    /\ liteChunks \in UNION {[1..n -> LiteDbfs] : n \in 1..MaxLiteChunks}
    /\ liteTargetDuration \in LiteTargetDurations
    /\ liteTempDir = <<>>
    /\ liteFiles = {}
    /\ liteSegments = <<>>
    /\ liteMixSegments = <<>>
    /\ liteTotalDuration = 0
    /\ liteI = 0
    /\ litePc = "download"
    /\ liteOutput = <<>>
    /\ SelIdle
    /\ ParIdle
    /\ MixIdle
    /\ ProdIdle
    /\ XfIdle
    /\ ChainIdle
    /\ PmIdle
    /\ PmsIdle

\* download_podcast_episode: the temporary directory is set up and the
\* episode written into it
LiteDownload ==
    /\ litePc = "download"
    /\ liteTempDir' = <<"tmp">>
    /\ liteFiles' = liteFiles \cup {"tmp/episode.mp3"}
    /\ litePc' = "load"
    /\ UNCHANGED <<liteChunks, liteTargetDuration, liteSegments,
                   liteMixSegments, liteTotalDuration, liteI, liteOutput>>
    /\ UNCHANGED notLite

\* download_podcast_episode fails after the directory was set up
LiteDownloadFails ==
    /\ litePc = "download"
    /\ liteTempDir' = <<"tmp">>
    /\ LiteReturn("None")
    /\ UNCHANGED <<liteChunks, liteTargetDuration, liteFiles, liteSegments,
                   liteMixSegments, liteTotalDuration, liteI>>
    /\ UNCHANGED notLite

\* load_audio_basic, analyze_audio_basic, the selection and the intro
LiteLoad ==
    /\ litePc = "load"
    /\ liteSegments' = intelligent_segment_selection_basic(liteChunks,
                                                           LiteTargetSegments)
    /\ liteMixSegments' = <<LiteMusic("intro", 5)>>
    /\ liteTotalDuration' = 5000
    /\ litePc' = "loop"
    /\ UNCHANGED <<liteChunks, liteTargetDuration, liteTempDir, liteFiles,
                   liteI, liteOutput>>
    /\ UNCHANGED notLite

\* load_audio_basic returns None
LiteLoadFails ==
    /\ litePc = "load"
    /\ LiteReturn("None")
    /\ UNCHANGED <<liteChunks, liteTargetDuration, liteTempDir, liteFiles,
                   liteSegments, liteMixSegments, liteTotalDuration, liteI>>
    /\ UNCHANGED notLite

\* One round of the loop over segments
LiteSegment ==
    /\ litePc = "loop"
    /\ liteI < Len(liteSegments)
    /\ liteTotalDuration < liteTargetDuration * 1000
    /\ LET i == liteI + 1
           c == liteSegments[i]
           start == (c.timestamp[1] * 1000) \div c.timestamp[2]
           end == start + c.duration * 1000
           len == LiteDuration(liteChunks) * 1000
           total == liteTotalDuration + c.duration * 1000
           part == [kind |-> "segment", index |-> i, ms |-> c.duration * 1000]
           transition == /\ i < Len(liteSegments)
                         /\ total < (liteTargetDuration - 10) * 1000
       IN  IF start < len /\ end <= len
           THEN /\ liteMixSegments' = liteMixSegments \o <<part>> \o
                       (IF transition
                        THEN <<[kind |-> "transition", index |-> 0, ms |-> 500]>>
                        ELSE <<>>)
                /\ liteTotalDuration' = total + (IF transition THEN 500 ELSE 0)
           ELSE UNCHANGED <<liteMixSegments, liteTotalDuration>>
    /\ liteI' = liteI + 1
    /\ UNCHANGED <<liteChunks, liteTargetDuration, liteTempDir, liteFiles,
                   liteSegments, litePc, liteOutput>>
    /\ UNCHANGED notLite

\* The loop is over or left by its break; the outro is appended
LiteOutro ==
    /\ litePc = "loop"
    /\ \/ liteI = Len(liteSegments)
       \/ liteTotalDuration >= liteTargetDuration * 1000
    /\ liteMixSegments' = Append(liteMixSegments, LiteMusic("outro", 8))
    /\ litePc' = "export"
    /\ UNCHANGED <<liteChunks, liteTargetDuration, liteTempDir, liteFiles,
                   liteSegments, liteTotalDuration, liteI, liteOutput>>
    /\ UNCHANGED notLite

\* export_mix: the mp3 is written into the temporary directory and its path
\* returned, or '' when the export raised
LiteExport ==
    /\ litePc = "export"
    /\ \E written \in BOOLEAN :
          IF written
          THEN /\ liteFiles' = liteFiles \cup {"tmp/mix.mp3"}
               /\ LiteReturn("tmp/mix.mp3")
          ELSE /\ UNCHANGED liteFiles
               /\ LiteReturn("")
    /\ UNCHANGED <<liteChunks, liteTargetDuration, liteTempDir, liteSegments,
                   liteMixSegments, liteTotalDuration, liteI>>
    /\ UNCHANGED notLite

\* finally: cleanup_temp_directory removes the temporary directory with
\* everything in it; then the caller has the value
LiteCleanup ==
    /\ litePc = "finally"
    /\ IF liteTempDir # <<>>
       THEN /\ liteFiles' = {}
            /\ liteTempDir' = <<>>
       ELSE UNCHANGED <<liteFiles, liteTempDir>>
    /\ litePc' = "returned"
    /\ UNCHANGED <<liteChunks, liteTargetDuration, liteSegments,
                   liteMixSegments, liteTotalDuration, liteI, liteOutput>>
    /\ UNCHANGED notLite

NextLite ==
    \/ LiteDownload
    \/ LiteDownloadFails
    \/ LiteLoad
    \/ LiteLoadFails
    \/ LiteSegment
    \/ LiteOutro
    \/ LiteExport
    \/ LiteCleanup

SpecLite == InitLite /\ [][NextLite]_vars

\* C29: when create_professional_mix_lite has returned a non-empty path, the
\* file at that path exists.
C29_ReturnedMixExists ==
    (litePc = "returned" /\ liteOutput[1] \notin {"None", ""}) =>
        liteOutput[1] \in liteFiles

\* The accumulated duration of the mix has reached target_duration
PmTargetMet == pmTotalDuration >= pmTargetDuration * pmSr

\* C30: the candidate segments enter the mix in candidate order, and once
\* the accumulated duration has reached target_duration no further candidate
\* is processed or added: only the outro may follow.
C30_NothingAfterTarget ==
    /\ [](\A a, b \in 1..Len(SegmentIndexes(pmMixSegments)) :
              a < b => SegmentIndexes(pmMixSegments)[a]
                           < SegmentIndexes(pmMixSegments)[b])
    /\ [][PmTargetMet =>
              /\ pmI' = pmI
              /\ pmTotalDuration' = pmTotalDuration
              /\ Len(pmMixSegments') >= Len(pmMixSegments)
              /\ \A k \in 1..Len(pmMixSegments) :
                     pmMixSegments'[k] = pmMixSegments[k]
              /\ \A k \in (Len(pmMixSegments) + 1)..Len(pmMixSegments') :
                     pmMixSegments'[k].kind = "outro"]_vars
    /\ [][(~PmTargetMet /\ PmTargetMet') =>
              pmMixSegments'[Len(pmMixSegments')].kind \in {"intro", "segment"}]_vars

\* The loop was left by its break with a candidate not processed, and the
\* mix ends with the outro
C30_Witness ==
    /\ pmPc = "done"
    /\ PmTargetMet
    /\ pmI < Len(pmSegments)
    /\ SegmentIndexes(pmMixSegments) # <<>>
    /\ pmMixSegments[Len(pmMixSegments)].kind = "outro"

====
